---- MODULE Spec2Model ----
(***************************************************************************)
(* Model of the x402 facilitator (src/src/facilitator.ts) and of the       *)
(* client's createPayment (client.ts): payment verification, settlement    *)
(* and the used-nonce set, with the await points of verify and settle as   *)
(* separate steps.                                                         *)
(***************************************************************************)
EXTENDS Integers, Sequences, FiniteSets, TLC

(***************************************************************************)
(* Bounds of the model.                                                    *)
(***************************************************************************)
\* number of verify/settle calls started in one behaviour
MaxCalls == 2
\* the clock (seconds) runs from 0 to MaxNow
MaxNow == 2

(***************************************************************************)
(* Strings.  Addresses are sequences of characters, so that toLowerCase    *)
(* is computed; amounts are sequences of decimal digits, so that string    *)
(* equality and numeric equality differ.                                   *)
(***************************************************************************)
UpperChars == <<"A", "B", "R", "U">>
LowerChars == <<"a", "b", "r", "u">>

ToLowerChar(c) ==
  IF \E i \in DOMAIN UpperChars : UpperChars[i] = c
    THEN LowerChars[CHOOSE i \in DOMAIN UpperChars : UpperChars[i] = c]
    ELSE c

\* String.prototype.toLowerCase
toLowerCase(s) == [i \in DOMAIN s |-> ToLowerChar(s[i])]

RECURSIVE ParseUint(_)
\* BigInt(value) of a decimal digit string, as the uint256 encoder reads it
ParseUint(s) ==
  IF s = << >> THEN 0
  ELSE 10 * ParseUint(SubSeq(s, 1, Len(s) - 1)) + s[Len(s)]

\* wallet addresses (as wallet.address / recovered addresses print them)
Alice == <<"A", "x">>
Bob == <<"B", "y">>
Wallets == {Alice, Bob}
\* the address recovered from a signature made over another digest
Unrelated == <<"z", "z">>

Recipient == <<"R", "c">>
OtherRecipient == <<"d", "e">>
USDC == <<"U", "s">>

(***************************************************************************)
(* Invalid reasons and errors, as the code spells them.                    *)
(***************************************************************************)
unsupportedVersion == "Unsupported x402 version"
schemeOrNetworkMismatch == "Scheme or network mismatch"
nonceReused == "Nonce already used"
amountMismatch == "Payment amount mismatch"
recipientMismatch == "Payment recipient mismatch"
expired == "Payment expired"
badSignature == "Invalid signature"
unsupportedScheme == "Unsupported payment scheme"
\* `Verification failed: ${error.message}` of the catch block of verify
verificationFailed == "Verification failed: "
\* verification.invalidReason || 'Payment verification failed'
verificationFallback == "Payment verification failed"
\* `Settlement failed: ${error.message}` of the catch block of settle
settlementFailed == "Settlement failed: "

(***************************************************************************)
(* getChainId, in the facilitator and in the client.                       *)
(***************************************************************************)
chainIds ==
  [n \in {"base-sepolia", "base", "ethereum", "sepolia"} |->
     CASE n = "base-sepolia" -> 84532
       [] n = "base" -> 8453
       [] n = "ethereum" -> 1
       [] n = "sepolia" -> 11155111]

\* as getChainId, without the fallback (0 stands for undefined)
getChainIdNoFallback(network) ==
  IF network \in DOMAIN chainIds THEN chainIds[network] ELSE 0

\* SimpleFacilitator.getChainId: chainIds[network] || 1
getChainId(network) ==
  IF network \in DOMAIN chainIds /\ chainIds[network] # 0
    THEN chainIds[network] ELSE 1

clientChainIds ==
  [n \in {"base-sepolia", "base", "ethereum", "sepolia"} |->
     CASE n = "base-sepolia" -> 84532
       [] n = "base" -> 8453
       [] n = "ethereum" -> 1
       [] n = "sepolia" -> 11155111]

\* as clientGetChainId, falling back to the chain of the supported network
clientGetChainIdOtherFallback(network) ==
  IF network \in DOMAIN clientChainIds /\ clientChainIds[network] # 0
    THEN clientChainIds[network] ELSE 84532

\* getChainId of the client: chainIds[network] || 1
clientGetChainId(network) ==
  IF network \in DOMAIN clientChainIds /\ clientChainIds[network] # 0
    THEN clientChainIds[network] ELSE 1

(***************************************************************************)
(* EIP-712 typed data: domain, message, digest, signing and recovery.      *)
(***************************************************************************)
\* name: extra?.name || 'USD Coin', version: extra?.version || '2'
\* ("" stands for an absent or empty field, both falsy)
DomainOf(req, chainId) ==
  [name |-> IF req.extra.name = "" THEN "USD Coin" ELSE req.extra.name,
   version |-> IF req.extra.version = "" THEN "2" ELSE req.extra.version,
   chainId |-> chainId,
   verifyingContract |-> req.asset]

facilitatorDomain(req) == DomainOf(req, getChainId(req.network))
clientDomain(req) == DomainOf(req, clientGetChainId(req.network))

\* the six fields of TransferWithAuthorization
MessageOf(p) ==
  [from |-> p.from, to |-> p.to, value |-> p.value,
   validAfter |-> p.validAfter, validBefore |-> p.validBefore,
   nonce |-> p.nonce]

\* as TypedDataHash, with the value left out of the encoded message
TypedDataHashNoValue(domain, message) ==
  <<domain.name, domain.version, domain.chainId,
    toLowerCase(domain.verifyingContract),
    toLowerCase(message.from), toLowerCase(message.to),
    message.validAfter, message.validBefore, message.nonce>>

\* The digest of the typed data: addresses are encoded as their 20 bytes
\* (letter case does not matter), uint256 fields as numbers, the rest as is.
TypedDataHash(domain, message) ==
  <<domain.name, domain.version, domain.chainId,
    toLowerCase(domain.verifyingContract),
    toLowerCase(message.from), toLowerCase(message.to),
    ParseUint(message.value), message.validAfter, message.validBefore,
    message.nonce>>

\* wallet.signTypedData(domain, types, message)
signTypedData(wallet, domain, message) ==
  [wellFormed |-> TRUE, signer |-> wallet,
   digest |-> TypedDataHash(domain, message)]

\* a signature string that is no signature at all
GarbageSignature == [wellFormed |-> FALSE, signer |-> Unrelated, digest |-> << >>]

\* ethers.verifyTypedData: the address recovered from the signature over the
\* digest of (domain, message); throws on a signature it cannot parse.
verifyTypedData(domain, message, signature) ==
  IF ~signature.wellFormed THEN [throws |-> TRUE, address |-> Unrelated]
  ELSE IF signature.digest = TypedDataHash(domain, message)
    THEN [throws |-> FALSE, address |-> signature.signer]
    ELSE [throws |-> FALSE, address |-> Unrelated]

\* as verifyEIP3009Signature, comparing the addresses as they are written
verifyEIP3009SignatureCaseSensitive(payload, requirements) ==
  LET recovered ==
        verifyTypedData(facilitatorDomain(requirements), MessageOf(payload),
                        payload.signature)
  IN  IF recovered.throws THEN FALSE
      ELSE recovered.address = payload.from

\* SimpleFacilitator.verifyEIP3009Signature: an exception yields false
verifyEIP3009Signature(payload, requirements) ==
  LET recovered ==
        verifyTypedData(facilitatorDomain(requirements), MessageOf(payload),
                        payload.signature)
  IN  IF recovered.throws THEN FALSE
      ELSE toLowerCase(recovered.address) = toLowerCase(payload.from)

(***************************************************************************)
(* The payment header.  A header is the base64 text of a JSON text; it is  *)
(* modelled by what decoding it gives: form "json" is a payload object     *)
(* with all its fields, "notJson" a text JSON.parse rejects, "null" the    *)
(* JSON value null, "emptyObject" the object {}, "noPayload" an object     *)
(* without its payload field, "noValue" and "noTo" an object whose payload *)
(* lacks that field (body then holds the fields that are present).         *)
(***************************************************************************)
\* Buffer.from(JSON.stringify(paymentPayload), 'utf-8').toString('base64')
EncodeHeader(paymentPayload) == [form |-> "json", body |-> paymentPayload]

\* createPayment of the client; rnd is the value of randomBytes(32)
createPayment(wallet, requirement, now0, rnd) ==
  LET unsigned ==
        [from |-> wallet,
         to |-> requirement.payTo,
         value |-> requirement.maxAmountRequired,
         validAfter |-> now0 - 60,
         validBefore |-> now0 + requirement.maxTimeoutSeconds,
         nonce |-> IF requirement.nonce # "" THEN requirement.nonce ELSE rnd]
      signature ==
        signTypedData(wallet, clientDomain(requirement), MessageOf(unsigned))
  IN  EncodeHeader(
        [x402Version |-> 1,
         scheme |-> requirement.scheme,
         network |-> requirement.network,
         from |-> unsigned.from, to |-> unsigned.to, value |-> unsigned.value,
         validAfter |-> unsigned.validAfter,
         validBefore |-> unsigned.validBefore,
         nonce |-> unsigned.nonce,
         signature |-> signature])

(***************************************************************************)
(* verify.  Its code runs without interruption from the call to its first  *)
(* await (of verifyEIP3009Signature, whose body has run by then) or to a   *)
(* return; after the await it only inspects isValidSignature.              *)
(***************************************************************************)
Invalid(reason) == [isValid |-> FALSE, invalidReason |-> reason]
Valid == [isValid |-> TRUE, invalidReason |-> ""]
NoResponse == [isValid |-> FALSE, invalidReason |-> ""]

\* as VerifyChecks, the nonce looked up after the other checks
VerifyChecksNonceLast(p, requirements, used, now0) ==
  IF p.x402Version # 1 THEN Invalid(unsupportedVersion)
  ELSE IF p.scheme # requirements.scheme \/ p.network # requirements.network
    THEN Invalid(schemeOrNetworkMismatch)
  ELSE IF p.scheme = "exact" THEN
    IF p.value # requirements.maxAmountRequired THEN Invalid(amountMismatch)
    ELSE IF toLowerCase(p.to) # toLowerCase(requirements.payTo)
      THEN Invalid(recipientMismatch)
    ELSE IF p.validBefore < now0 THEN Invalid(expired)
    ELSE IF p.nonce \in used THEN Invalid(nonceReused)
    ELSE Valid
  ELSE Invalid(unsupportedScheme)

\* as VerifyChecks, the recipient compared before the amount
VerifyChecksRecipientFirst(p, requirements, used, now0) ==
  IF p.x402Version # 1 THEN Invalid(unsupportedVersion)
  ELSE IF p.scheme # requirements.scheme \/ p.network # requirements.network
    THEN Invalid(schemeOrNetworkMismatch)
  ELSE IF p.scheme = "exact" THEN
    IF p.nonce \in used THEN Invalid(nonceReused)
    ELSE IF toLowerCase(p.to) # toLowerCase(requirements.payTo)
      THEN Invalid(recipientMismatch)
    ELSE IF p.value # requirements.maxAmountRequired
      THEN Invalid(amountMismatch)
    ELSE IF p.validBefore < now0 THEN Invalid(expired)
    ELSE Valid
  ELSE Invalid(unsupportedScheme)

\* as VerifyChecks, requiring the nonce the requirement names, if any
VerifyChecksBindsNonce(p, requirements, used, now0) ==
  IF p.x402Version # 1 THEN Invalid(unsupportedVersion)
  ELSE IF p.scheme # requirements.scheme \/ p.network # requirements.network
    THEN Invalid(schemeOrNetworkMismatch)
  ELSE IF p.scheme = "exact" THEN
    IF p.nonce \in used THEN Invalid(nonceReused)
    ELSE IF requirements.nonce # "" /\ p.nonce # requirements.nonce
      THEN Invalid("Nonce mismatch")
    ELSE IF p.value # requirements.maxAmountRequired
      THEN Invalid(amountMismatch)
    ELSE IF toLowerCase(p.to) # toLowerCase(requirements.payTo)
      THEN Invalid(recipientMismatch)
    ELSE IF p.validBefore < now0 THEN Invalid(expired)
    ELSE Valid
  ELSE Invalid(unsupportedScheme)

\* as VerifyChecks, making the checks of 'exact' for every scheme
VerifyChecksAnyScheme(p, requirements, used, now0) ==
  IF p.x402Version # 1 THEN Invalid(unsupportedVersion)
  ELSE IF p.scheme # requirements.scheme \/ p.network # requirements.network
    THEN Invalid(schemeOrNetworkMismatch)
  ELSE IF p.nonce \in used THEN Invalid(nonceReused)
  ELSE IF p.value # requirements.maxAmountRequired
    THEN Invalid(amountMismatch)
  ELSE IF toLowerCase(p.to) # toLowerCase(requirements.payTo)
    THEN Invalid(recipientMismatch)
  ELSE IF p.validBefore < now0 THEN Invalid(expired)
  ELSE Valid

\* as VerifyChecks, comparing the amounts as numbers
VerifyChecksNumericAmount(p, requirements, used, now0) ==
  IF p.x402Version # 1 THEN Invalid(unsupportedVersion)
  ELSE IF p.scheme # requirements.scheme \/ p.network # requirements.network
    THEN Invalid(schemeOrNetworkMismatch)
  ELSE IF p.scheme = "exact" THEN
    IF p.nonce \in used THEN Invalid(nonceReused)
    ELSE IF ParseUint(p.value) # ParseUint(requirements.maxAmountRequired)
      THEN Invalid(amountMismatch)
    ELSE IF toLowerCase(p.to) # toLowerCase(requirements.payTo)
      THEN Invalid(recipientMismatch)
    ELSE IF p.validBefore < now0 THEN Invalid(expired)
    ELSE Valid
  ELSE Invalid(unsupportedScheme)

\* as VerifyChecks, with a test of validAfter against the clock
VerifyChecksNotBefore(p, requirements, used, now0) ==
  IF p.x402Version # 1 THEN Invalid(unsupportedVersion)
  ELSE IF p.scheme # requirements.scheme \/ p.network # requirements.network
    THEN Invalid(schemeOrNetworkMismatch)
  ELSE IF p.scheme = "exact" THEN
    IF p.nonce \in used THEN Invalid(nonceReused)
    ELSE IF p.value # requirements.maxAmountRequired
      THEN Invalid(amountMismatch)
    ELSE IF toLowerCase(p.to) # toLowerCase(requirements.payTo)
      THEN Invalid(recipientMismatch)
    ELSE IF p.validBefore < now0 THEN Invalid(expired)
    ELSE IF p.validAfter > now0 THEN Invalid("Payment not yet valid")
    ELSE Valid
  ELSE Invalid(unsupportedScheme)

\* as VerifyChecks, with validBefore <= now as the expiry test
VerifyChecksStrictExpiry(p, requirements, used, now0) ==
  IF p.x402Version # 1 THEN Invalid(unsupportedVersion)
  ELSE IF p.scheme # requirements.scheme \/ p.network # requirements.network
    THEN Invalid(schemeOrNetworkMismatch)
  ELSE IF p.scheme = "exact" THEN
    IF p.nonce \in used THEN Invalid(nonceReused)
    ELSE IF p.value # requirements.maxAmountRequired
      THEN Invalid(amountMismatch)
    ELSE IF toLowerCase(p.to) # toLowerCase(requirements.payTo)
      THEN Invalid(recipientMismatch)
    ELSE IF p.validBefore <= now0 THEN Invalid(expired)
    ELSE Valid
  ELSE Invalid(unsupportedScheme)

\* the checks of verify on a decoded payload, up to the signature check
VerifyChecks(p, requirements, used, now0) ==
  IF p.x402Version # 1 THEN Invalid(unsupportedVersion)
  ELSE IF p.scheme # requirements.scheme \/ p.network # requirements.network
    THEN Invalid(schemeOrNetworkMismatch)
  ELSE IF p.scheme = "exact" THEN
    IF p.nonce \in used THEN Invalid(nonceReused)
    ELSE IF p.value # requirements.maxAmountRequired
      THEN Invalid(amountMismatch)
    ELSE IF toLowerCase(p.to) # toLowerCase(requirements.payTo)
      THEN Invalid(recipientMismatch)
    ELSE IF p.validBefore < now0 THEN Invalid(expired)
    ELSE Valid
  ELSE Invalid(unsupportedScheme)

\* a promise rejected with an exception nothing caught (no code of verify
\* or settle produces it: every exception of verify is caught at line 123)
uncaught == "uncaught exception"
Rejected == Invalid(uncaught)

Returns(response) ==
  [suspended |-> FALSE, isValidSignature |-> FALSE, raised |-> FALSE,
   response |-> response]
\* an exception raised inside the try block of verify
Raises ==
  [suspended |-> FALSE, isValidSignature |-> FALSE, raised |-> TRUE,
   response |-> NoResponse]

\* The try block of verify from the call to its first suspension, return or
\* exception: [suspended, isValidSignature, raised, response].  By the form
\* of the header: "notJson" makes JSON.parse throw; "null" makes the read of
\* x402Version throw; "emptyObject" ({}) has x402Version undefined;
\* "noPayload" makes the read of payload.nonce throw; "noValue" has
\* payload.value undefined; "noTo" makes payload.to.toLowerCase() throw.
VerifyTry(header, requirements, used, now0) ==
  LET checks == VerifyChecks(header.body, requirements, used, now0)
      early == {unsupportedVersion, schemeOrNetworkMismatch, unsupportedScheme}
  IN
  CASE header.form = "notJson" -> Raises
    [] header.form = "null" -> Raises
    [] header.form = "emptyObject" -> Returns(Invalid(unsupportedVersion))
    [] header.form = "noPayload" ->
         IF checks.invalidReason \in early THEN Returns(checks) ELSE Raises
    [] header.form = "noValue" ->
         IF checks.invalidReason \in early \cup {nonceReused}
           THEN Returns(checks)
           ELSE Returns(Invalid(amountMismatch))
    [] header.form = "noTo" ->
         IF checks.invalidReason \in early \cup {nonceReused, amountMismatch}
           THEN Returns(checks)
           ELSE Raises
    [] OTHER ->
         IF checks.isValid
           THEN [suspended |-> TRUE,
                 isValidSignature |->
                   verifyEIP3009Signature(header.body, requirements),
                 raised |-> FALSE,
                 response |-> NoResponse]
           ELSE Returns(checks)

\* as VerifyBegin, without the catch block
VerifyBeginNoCatch(header, requirements, used, now0) ==
  LET try == VerifyTry(header, requirements, used, now0) IN
  IF try.raised
    THEN [suspended |-> FALSE, isValidSignature |-> FALSE,
          response |-> Rejected]
    ELSE [suspended |-> try.suspended,
          isValidSignature |-> try.isValidSignature,
          response |-> try.response]

\* verify from its call to its first suspension or return:
\* [suspended, isValidSignature, response]; the catch block turns an
\* exception of the try block into an invalid response
VerifyBegin(header, requirements, used, now0) ==
  LET try == VerifyTry(header, requirements, used, now0) IN
  IF try.raised
    THEN [suspended |-> FALSE, isValidSignature |-> FALSE,
          response |-> Invalid(verificationFailed)]
    ELSE [suspended |-> try.suspended,
          isValidSignature |-> try.isValidSignature,
          response |-> try.response]

\* verify after `await this.verifyEIP3009Signature(...)`
VerifyEnd(isValidSignature) ==
  IF ~isValidSignature THEN Invalid(badSignature) ELSE Valid

(***************************************************************************)
(* settle after `await this.verify(...)`: the early return on an invalid   *)
(* verification, else the second decode, usedNonces.add and the result.    *)
(***************************************************************************)
Failure(error) ==
  [success |-> FALSE, txHash |-> "", networkId |-> "", error |-> error]
Success(txHash, networkId) ==
  [success |-> TRUE, txHash |-> txHash, networkId |-> networkId, error |-> ""]
NoSettlement == [success |-> FALSE, txHash |-> "", networkId |-> "", error |-> ""]

\* `0x${64 random hex digits}`
TxHashes == {"0x0000", "0xffff"}

\* as SettleEnd, without usedNonces.add
SettleEndNoAdd(verification, header, used, fakeTxHash) ==
  IF ~verification.isValid
    THEN [settlement |-> Failure(verification.invalidReason), used |-> used]
    ELSE [settlement |-> Success(fakeTxHash, header.body.network),
          used |-> used]

\* as SettleEnd, reporting one fixed error for every rejected verification
SettleEndGenericError(verification, header, used, fakeTxHash) ==
  IF ~verification.isValid
    THEN [settlement |-> Failure(verificationFallback), used |-> used]
    ELSE [settlement |-> Success(fakeTxHash, header.body.network),
          used |-> used \cup {header.body.nonce}]

\* as SettleEnd, releasing the nonce when the settlement fails
SettleEndReleases(verification, header, used, fakeTxHash) ==
  IF ~verification.isValid
    THEN [settlement |-> Failure(verification.invalidReason),
          used |-> used \ {header.body.nonce}]
    ELSE [settlement |-> Success(fakeTxHash, header.body.network),
          used |-> used \cup {header.body.nonce}]

\* as SettleEnd, with usedNonces.add moved before the test of the verification
SettleEndAlwaysAdds(verification, header, used, fakeTxHash) ==
  IF ~verification.isValid
    THEN [settlement |-> Failure(verification.invalidReason),
          used |-> used \cup {header.body.nonce}]
    ELSE [settlement |-> Success(fakeTxHash, header.body.network),
          used |-> used \cup {header.body.nonce}]

\* [settlement, used]: the response of settle and the used nonces it leaves
SettleEnd(verification, header, used, fakeTxHash) ==
  IF ~verification.isValid
    THEN [settlement |->
            Failure(IF verification.invalidReason # ""
                      THEN verification.invalidReason
                      ELSE verificationFallback),
          used |-> used]
  ELSE IF header.form \in {"notJson", "null", "emptyObject", "noPayload"}
    THEN [settlement |-> Failure(settlementFailed), used |-> used]
  ELSE [settlement |-> Success(fakeTxHash, header.body.network),
        used |-> used \cup {header.body.nonce}]

(***************************************************************************)
(* The inputs: requirements a server issues and headers a client, honest   *)
(* or not, may send.                                                       *)
(***************************************************************************)
Nonces == {"n1", "n2"}

\* the requirement of the end-to-end scenario
BaseReq ==
  [scheme |-> "exact", network |-> "base-sepolia",
   maxAmountRequired |-> <<1, 0>>, payTo |-> Recipient, asset |-> USDC,
   maxTimeoutSeconds |-> 1, extra |-> [name |-> "", version |-> ""],
   nonce |-> ""]

\* p with the fields of ov replaced
Override(p, ov) == [f \in DOMAIN p |-> IF f \in DOMAIN ov THEN ov[f] ELSE p[f]]

\* one changed field of a requirement
ReqChanges ==
  { [network |-> "ethereum"], [network |-> "polygon"], [scheme |-> "upto"],
    [payTo |-> toLowerCase(Recipient)], [maxAmountRequired |-> <<9>>],
    [extra |-> [name |-> "USDC", version |-> "2"]],
    [nonce |-> "n1"], [maxTimeoutSeconds |-> 2] }

Reqs == {BaseReq} \cup {Override(BaseReq, ch) : ch \in ReqChanges}

\* one changed field of a payload
PayloadChanges ==
  { [x402Version |-> 2], [scheme |-> "upto"], [scheme |-> "exact"],
    [network |-> "ethereum"], [network |-> "polygon"],
    [network |-> "base-sepolia"],
    [from |-> Bob], [from |-> toLowerCase(Alice)],
    [to |-> OtherRecipient], [to |-> toLowerCase(Recipient)],
    [value |-> <<9>>], [value |-> <<0, 1, 0>>],
    [validAfter |-> MaxNow + 1], [validBefore |-> 0],
    [nonce |-> "n2"] }

\* A payment made as createPayment makes it, except that the client signs
\* the message with the changes `signed` and the header then sent carries
\* the further changes `sent` (the signature left as it was).
MakeHeader(wallet, requirement, rnd, signed, sent) ==
  LET honest == createPayment(wallet, requirement, 0, rnd).body
      meant == Override(honest, signed)
      signature ==
        signTypedData(wallet, clientDomain(requirement), MessageOf(meant))
  IN  EncodeHeader(Override([meant EXCEPT !.signature = signature], sent))

NoChange == [f \in {} |-> 0]

\* no change, one change, or two changes of different fields
ChangeSets(changes) ==
  {NoChange} \cup changes \cup
  { ab[1] @@ ab[2] :
      ab \in { cd \in changes \X changes : DOMAIN cd[1] # DOMAIN cd[2] } }

\* headers whose decoding fails or gives no payload
BrokenHeaders ==
  LET body == createPayment(Alice, BaseReq, 0, "n1").body
  IN  { [form |-> "notJson", body |-> body], [form |-> "null", body |-> body],
        [form |-> "noPayload", body |-> body],
        [form |-> "noPayload", body |-> [body EXCEPT !.x402Version = 2]],
        [form |-> "emptyObject", body |-> body],
        [form |-> "noValue", body |-> body],
        [form |-> "noTo", body |-> body],
        [form |-> "noTo", body |-> [body EXCEPT !.value = <<9>>]] }

\* the <<header, requirement>> pairs of the sequential specification: a
\* payment made for the requirement with up to two changes, signed or sent,
\* or a payment made for another requirement with at most one change
WidePairs ==
  { <<MakeHeader(Alice, r, "n1", NoChange, sent), r>> :
      r \in Reqs, sent \in ChangeSets(PayloadChanges) }
  \cup
  { <<MakeHeader(Alice, r, "n1", signed, NoChange), r>> :
      r \in Reqs, signed \in ChangeSets(PayloadChanges) }
  \cup
  { <<MakeHeader(Alice, r, "n1", signed, sent), r>> :
      r \in Reqs, signed \in PayloadChanges, sent \in PayloadChanges }
  \cup
  { <<[MakeHeader(Alice, rs, "n1", NoChange, sent)
         EXCEPT !.body.signature =
           IF garbage THEN GarbageSignature ELSE @], r>> :
      rs \in Reqs, r \in Reqs,
      sent \in {NoChange} \cup PayloadChanges, garbage \in BOOLEAN }
  \cup
  { <<h, r>> :
      h \in BrokenHeaders,
      r \in {BaseReq, Override(BaseReq, [scheme |-> "upto"]),
             Override(BaseReq, [maxAmountRequired |-> <<9>>])} }

\* the honest payment for BaseReq that carries the nonce of header h
Companion(h) == <<createPayment(Alice, BaseReq, 0, h.body.nonce), BaseReq>>

\* the network names of the lookup tables, and one that is in neither
Networks == {"base-sepolia", "base", "ethereum", "sepolia", "polygon"}

\* the pairs of the interleaving specification
NarrowPairs ==
  { <<MakeHeader(Alice, BaseReq, "n1", NoChange, sent), BaseReq>> :
      sent \in { NoChange, [nonce |-> "n2"], [x402Version |-> 2],
                 [value |-> <<9>>], [validBefore |-> 0],
                 [to |-> OtherRecipient],
                 [signature |-> GarbageSignature] } }
  \cup
  { <<createPayment(Alice, BaseReq, 0, "n2"), BaseReq>>,
    <<createPayment(Alice, Override(BaseReq, [scheme |-> "upto"]), 0, "n1"),
      Override(BaseReq, [scheme |-> "upto"])>>,
    <<[form |-> "notJson", body |-> createPayment(Alice, BaseReq, 0, "n1").body],
      BaseReq>>,
    <<[form |-> "noPayload", body |-> createPayment(Alice, BaseReq, 0, "n1").body],
      BaseReq>> }
  \cup
  { <<createPayment(Alice, Override(BaseReq, [network |-> n]), 0, "n1"),
      Override(BaseReq, [network |-> n])>> : n \in Networks \ {"base-sepolia"} }
  \cup
  { <<MakeHeader(Alice, BaseReq, "n1", [validAfter |-> v], NoChange), BaseReq>> :
      v \in {0, 1, MaxNow + 1} }
  \cup
  { <<createPayment(Alice, Override(BaseReq, [extra |-> e]), 0, "n1"),
      Override(BaseReq, [extra |-> e])>> :
      e \in { [name |-> "USDC", version |-> "2"],
              [name |-> "USDC", version |-> ""] } }

(***************************************************************************)
(* The state.                                                              *)
(***************************************************************************)
VARIABLES
  usedNonces,  \* SimpleFacilitator.usedNonces
  now,         \* the last value of Math.floor(Date.now() / 1000) a call read
  calls,       \* the calls in progress or returned, by slot: the code's
               \* locals (header, req, isValidSignature, verification), the
               \* response, and what the call saw when it began (the clock,
               \* usedNonces, the nonces already settled with success)
  started,     \* the number of calls started so far
  settled,     \* per nonce, the number of settle calls that returned success
  pool,        \* the <<header, requirement>> pairs the callers use
  overlap      \* whether callers start a call while another is in progress

vars == <<usedNonces, now, calls, started, settled, pool, overlap>>

Slots == 1..MaxCalls

IdleCall ==
  [op |-> "none", pc |-> "idle",
   header |-> createPayment(Alice, BaseReq, 0, "n1"), req |-> BaseReq,
   isValidSignature |-> FALSE, verification |-> NoResponse,
   settlement |-> NoSettlement,
   clock |-> 0, usedSeen |-> {}, settledSeen |-> {}]

Free(c) == calls[c].pc \in {"idle", "done"}

TypeOK ==
  /\ usedNonces \subseteq Nonces
  /\ now \in 0..MaxNow
  /\ started \in 0..MaxCalls
  /\ overlap \in BOOLEAN
  /\ \A c \in Slots :
       /\ calls[c].op \in {"none", "verify", "settle"}
       /\ calls[c].pc \in {"idle", "verifySig", "settleAwait", "done"}

InitWith(p, o) ==
  /\ usedNonces = {}
  /\ now = 0
  /\ calls = [c \in Slots |-> IdleCall]
  /\ started = 0
  /\ settled = [n \in Nonces |-> 0]
  /\ pool = p
  /\ overlap = o

\* callers that overlap their calls
Init ==
  \E a \in NarrowPairs :
    InitWith({<<createPayment(Alice, BaseReq, 0, "n1"), BaseReq>>, a}, TRUE)

\* callers that await each call before the next
InitSeq == \E a \in WidePairs : InitWith({a, Companion(a[1])}, FALSE)

(***************************************************************************)
(* The steps.                                                              *)
(***************************************************************************)
\* A caller calls verify(header, req) or settle(header, req); the call runs
\* to the first await: verify's await of the signature check, or (settle)
\* the await of a verify that has returned already.
StartCall(c, op, header, req, t) ==
  /\ started < MaxCalls
  /\ Free(c) /\ \A d \in Slots : d < c => ~Free(d)
  /\ overlap \/ \A d \in Slots : Free(d)
  /\ t >= now
  /\ LET v == VerifyBegin(header, req, usedNonces, t) IN
     calls' = [calls EXCEPT ![c] =
       [op |-> op, header |-> header, req |-> req,
        pc |-> IF v.suspended THEN "verifySig"
               ELSE IF op = "settle" THEN "settleAwait" ELSE "done",
        isValidSignature |-> v.isValidSignature,
        verification |-> v.response,
        settlement |-> NoSettlement,
        clock |-> t, usedSeen |-> usedNonces,
        settledSeen |-> {n \in Nonces : settled[n] > 0}]]
  /\ now' = t
  /\ started' = started + 1
  /\ UNCHANGED <<usedNonces, settled, pool, overlap>>

\* as VerifyResume, consuming the nonce of a header found valid
VerifyResumeConsumes(c) ==
  /\ calls[c].pc = "verifySig"
  /\ calls' = [calls EXCEPT ![c] =
       [@ EXCEPT !.verification = VerifyEnd(calls[c].isValidSignature),
                 !.pc = IF calls[c].op = "settle" THEN "settleAwait"
                        ELSE "done"]]
  /\ usedNonces' = IF calls[c].isValidSignature
                     THEN usedNonces \cup {calls[c].header.body.nonce}
                     ELSE usedNonces
  /\ UNCHANGED <<now, started, settled, pool, overlap>>

\* as VerifyResume, resuming only when no other call is suspended in verify
VerifyResumeWaits(c) ==
  /\ calls[c].pc = "verifySig"
  /\ \A d \in Slots \ {c} : calls[d].pc # "verifySig"
  /\ calls' = [calls EXCEPT ![c] =
       [@ EXCEPT !.verification = VerifyEnd(calls[c].isValidSignature),
                 !.pc = IF calls[c].op = "settle" THEN "settleAwait"
                        ELSE "done"]]
  /\ UNCHANGED <<usedNonces, now, started, settled, pool, overlap>>

\* verify resumes after `await this.verifyEIP3009Signature(...)` and returns
VerifyResume(c) ==
  /\ calls[c].pc = "verifySig"
  /\ calls' = [calls EXCEPT ![c] =
       [@ EXCEPT !.verification = VerifyEnd(calls[c].isValidSignature),
                 !.pc = IF calls[c].op = "settle" THEN "settleAwait"
                        ELSE "done"]]
  /\ UNCHANGED <<usedNonces, now, started, settled, pool, overlap>>

\* settle resumes after `await this.verify(...)` and returns
SettleResume(c, fakeTxHash) ==
  /\ calls[c].pc = "settleAwait"
  /\ LET e == SettleEnd(calls[c].verification, calls[c].header, usedNonces,
                        fakeTxHash) IN
     /\ calls' = [calls EXCEPT ![c] =
          [@ EXCEPT !.settlement = e.settlement, !.pc = "done"]]
     /\ usedNonces' = e.used
     /\ settled' =
          IF e.settlement.success
            THEN [settled EXCEPT ![calls[c].header.body.nonce] = @ + 1]
            ELSE settled
  /\ UNCHANGED <<now, started, pool, overlap>>

Next ==
  \/ \E c \in Slots, op \in {"verify", "settle"}, pair \in pool, t \in 0..MaxNow :
       StartCall(c, op, pair[1], pair[2], t)
  \/ \E c \in Slots : VerifyResume(c)
  \/ \E c \in Slots, fakeTxHash \in TxHashes : SettleResume(c, fakeTxHash)

Spec == Init /\ [][Next]_vars
SpecSeq == InitSeq /\ [][Next]_vars

\* the continuation of an await whose promise is settled is queued as a
\* job, and every queued job is run: each call's continuations are fair
Fairness ==
  \A c \in Slots :
    /\ WF_vars(VerifyResume(c))
    /\ WF_vars(\E fakeTxHash \in TxHashes : SettleResume(c, fakeTxHash))

\* the pairs of the fair specification: a payment that is accepted, one
\* with another nonce, one rejected before the signature check, one
\* rejected by it, a header that does not decode, and payments for
\* requirements that name a nonce or another timeout
FairPairs ==
  { <<MakeHeader(Alice, BaseReq, "n1", NoChange, sent), BaseReq>> :
      sent \in { NoChange, [nonce |-> "n2"], [value |-> <<9>>],
                 [signature |-> GarbageSignature] } }
  \cup
  { <<[form |-> "notJson", body |-> createPayment(Alice, BaseReq, 0, "n1").body],
      BaseReq>> }
  \cup
  { <<MakeHeader(Alice, r, "n1", signed, NoChange), r>> :
      r \in { Override(BaseReq, [nonce |-> "n1"]),
              Override(BaseReq, [maxTimeoutSeconds |-> 2]) },
      signed \in { NoChange, [nonce |-> "n2"] } }

InitFair ==
  \E a \in FairPairs :
    InitWith({<<createPayment(Alice, BaseReq, 0, "n1"), BaseReq>>, a}, TRUE)

SpecFair == InitFair /\ [][Next]_vars /\ Fairness

(***************************************************************************)
(* What the properties below speak of.                                     *)
(***************************************************************************)
\* the call in slot c has returned its response
Returned(c) == calls[c].pc = "done"
\* the verify of the call in slot c (the call itself, or the one settle
\* made) has returned
VerifyReturned(c) == calls[c].pc \in {"settleAwait", "done"}
\* the header decodes to a payload that carries an authorization
Decodable(c) == calls[c].header.form = "json"

SchemeAndNetworkMatch(p, r) == p.scheme = r.scheme /\ p.network = r.network

\* the signature of payload p was made by the key of p.from over the
\* message of p under the domain the client builds from requirement r
HonestlySigned(p, r) ==
  \E w \in Wallets :
    /\ toLowerCase(w) = toLowerCase(p.from)
    /\ p.signature = signTypedData(w, clientDomain(r), MessageOf(p))

\* the reason a header with a used nonce is rejected with: the version and
\* scheme/network checks come before the look-up of the nonce
UsedNonceReason(p, r) ==
  IF p.x402Version # 1 THEN unsupportedVersion
  ELSE IF ~SchemeAndNetworkMatch(p, r) THEN schemeOrNetworkMismatch
  ELSE IF p.scheme # "exact" THEN unsupportedScheme
  ELSE nonceReused

(***************************************************************************)
(* C1  Replay rejection                                                    *)
(***************************************************************************)
\* C1 as stated: with callers that do not overlap their calls, once settle
\* has returned success for a nonce, every later verify with a header
\* carrying that nonce returns invalid with reason nonceReused, every later
\* settle fails with nonceReused, and no nonce is settled twice.
C1_ReplayAlwaysNonceReused ==
  /\ \A n \in Nonces : settled[n] <= 1
  /\ \A c \in Slots :
       (Returned(c) /\ Decodable(c)
          /\ calls[c].header.body.nonce \in calls[c].settledSeen)
       => /\ calls[c].verification = Invalid(nonceReused)
          /\ calls[c].op = "settle" => calls[c].settlement = Failure(nonceReused)

\* C1 amended: with callers that do not overlap their calls, once settle has
\* returned success for a nonce, every later verify with a header carrying
\* that nonce returns invalid and every later settle fails (at most one
\* settle succeeds per nonce); the reason is nonceReused when the header has
\* version 1, the requirement's scheme and network and the scheme 'exact',
\* and otherwise the reason of the version, scheme/network or scheme check,
\* which verify makes before it looks the nonce up.
C1_ReplayRejected ==
  /\ \A n \in Nonces : settled[n] <= 1
  /\ \A c \in Slots :
       (Returned(c) /\ Decodable(c)
          /\ calls[c].header.body.nonce \in calls[c].settledSeen)
       => LET reason == UsedNonceReason(calls[c].header.body, calls[c].req) IN
          /\ calls[c].verification = Invalid(reason)
          /\ calls[c].op = "settle" => calls[c].settlement = Failure(reason)

\* a settle of a settled nonce has failed with nonceReused
C1_Witness ==
  \E c \in Slots :
    /\ Returned(c) /\ Decodable(c) /\ calls[c].op = "settle"
    /\ calls[c].header.body.nonce \in calls[c].settledSeen
    /\ calls[c].settlement = Failure(nonceReused)

(***************************************************************************)
(* C2  Concurrent settlement                                               *)
(***************************************************************************)
\* C2: of two settle calls with the same nonce that are in progress at the
\* same time, never both return success (one fails with nonceReused).
C2_NeverTwoSuccesses ==
  \A c, d \in Slots :
    (c # d /\ Returned(c) /\ Returned(d)
       /\ calls[c].op = "settle" /\ calls[d].op = "settle"
       /\ Decodable(c) /\ Decodable(d)
       /\ calls[c].header.body.nonce = calls[d].header.body.nonce)
    => ~(calls[c].settlement.success /\ calls[d].settlement.success)

(***************************************************************************)
(* C3  Acceptance of honest payments                                       *)
(***************************************************************************)
\* the conditions C3 lists, for the verify of the call in slot c
C3_Conditions(c) ==
  LET p == calls[c].header.body
      r == calls[c].req
  IN  /\ VerifyReturned(c) /\ Decodable(c)
      /\ p.x402Version = 1
      /\ SchemeAndNetworkMatch(p, r)
      /\ p.value = r.maxAmountRequired
      /\ toLowerCase(p.to) = toLowerCase(r.payTo)
      /\ p.validBefore >= calls[c].clock
      /\ p.nonce \notin calls[c].usedSeen
      /\ HonestlySigned(p, r)

\* C3 as stated: version 1, the requirement's scheme and network, value
\* equal to maxAmountRequired, to equal to payTo ignoring case, validBefore
\* >= now, an unused nonce and a signature by the key of from over the
\* message under the requirement's domain: verify returns valid.
C3_HonestAccepted ==
  \A c \in Slots : C3_Conditions(c) => calls[c].verification = Valid

\* C3 amended: the same, for the scheme 'exact' (the only scheme verify
\* accepts).
C3_HonestExactAccepted ==
  \A c \in Slots :
    (C3_Conditions(c) /\ calls[c].header.body.scheme = "exact")
    => calls[c].verification = Valid

\* a verify call has accepted a payment whose addresses are written in
\* another letter case than the signer's and the requirement's
C3_Witness ==
  \E c \in Slots :
    /\ C3_Conditions(c) /\ calls[c].op = "verify"
    /\ calls[c].header.body.from # Alice
    /\ calls[c].verification = Valid

(***************************************************************************)
(* C4  verify is read-only                                                 *)
(***************************************************************************)
\* C4: every step of verify's code (the start of a call, and the return of
\* verify after the signature check), whatever its outcome, leaves
\* usedNonces as it was; only the continuation of settle changes it.
C4_VerifyReadOnly ==
  [][\A c \in Slots :
       (calls'[c] # calls[c]
          /\ ~(calls[c].op = "settle" /\ calls[c].pc = "settleAwait"))
       => usedNonces' = usedNonces]_vars

\* a verify call has found a header valid and its nonce is still unused
C4_Witness ==
  \E c \in Slots :
    /\ Returned(c) /\ calls[c].op = "verify"
    /\ calls[c].verification = Valid
    /\ calls[c].header.body.nonce \notin usedNonces

(***************************************************************************)
(* C5  Settlement re-verifies and propagates rejection                     *)
(***************************************************************************)
\* C5: no settle call returns without the response of its own verify, and
\* when that response is invalid with reason r, settle returns failure with
\* r, no transaction hash, and usedNonces (and the settled nonces) unchanged.
C5_RejectionPropagated ==
  /\ [](\A c \in Slots :
          (Returned(c) /\ calls[c].op = "settle")
          => calls[c].verification # NoResponse)
  /\ [][\A c \in Slots :
          (calls[c].op = "settle" /\ calls[c].pc = "settleAwait"
             /\ ~calls[c].verification.isValid /\ calls'[c].pc = "done")
          => /\ calls'[c].settlement =
                  Failure(calls[c].verification.invalidReason)
             /\ usedNonces' = usedNonces
             /\ settled' = settled]_vars

\* a settle call has failed with the amount mismatch its verify reported
C5_Witness ==
  \E c \in Slots :
    /\ Returned(c) /\ calls[c].op = "settle"
    /\ calls[c].verification = Invalid(amountMismatch)
    /\ calls[c].settlement = Failure(amountMismatch)
    /\ usedNonces = {}

(***************************************************************************)
(* C6  Verify-then-commit                                                  *)
(***************************************************************************)
\* C6: usedNonces changes only in the step in which a settle call, whose own
\* verify has returned valid, resumes and returns; that step adds the nonce
\* of that call's own header and nothing else, and no other call moves in
\* it.  So every used nonce was settled with success by some settle call.
C6_VerifyThenCommit ==
  /\ [](\A n \in usedNonces : settled[n] >= 1)
  /\ [][usedNonces' # usedNonces
          => \E c \in Slots :
               /\ calls[c].op = "settle" /\ calls[c].pc = "settleAwait"
               /\ calls[c].verification = Valid
               /\ calls'[c].pc = "done"
               /\ usedNonces' =
                    usedNonces \cup {calls[c].header.body.nonce}
               /\ \A d \in Slots \ {c} : calls'[d] = calls[d]]_vars

\* a settle call has added its nonce while another call was in progress
C6_Witness ==
  \E c, d \in Slots :
    /\ Returned(c) /\ calls[c].op = "settle" /\ calls[c].settlement.success
    /\ calls[c].header.body.nonce \in usedNonces
    /\ calls[d].pc \in {"verifySig", "settleAwait"}

(***************************************************************************)
(* C7  End-to-end success postcondition                                    *)
(***************************************************************************)
\* C7: a settle call whose verify found the header valid returns success
\* with a non-empty transaction hash and the requirement's network as
\* networkId, and usedNonces then holds the nonce of its header.
C7_SuccessPostcondition ==
  \A c \in Slots :
    (Returned(c) /\ calls[c].op = "settle" /\ calls[c].verification = Valid)
    => /\ calls[c].settlement.success
       /\ calls[c].settlement.txHash # ""
       /\ calls[c].settlement.error = ""
       /\ calls[c].settlement.networkId = calls[c].req.network
       /\ calls[c].header.body.nonce \in usedNonces

\* the end-to-end scenario: settle has succeeded on base-sepolia
C7_Witness ==
  \E c \in Slots :
    /\ Returned(c) /\ calls[c].op = "settle" /\ calls[c].verification = Valid
    /\ calls[c].settlement.txHash \in TxHashes
    /\ calls[c].settlement.networkId = "base-sepolia"
    /\ usedNonces = {calls[c].header.body.nonce}

(***************************************************************************)
(* C8  Order of the verification steps                                     *)
(***************************************************************************)
\* C8 as stated: a decodable header whose nonce is in usedNonces is rejected
\* with nonceReused, whatever other check it would fail.
C8_UsedNonceFirst ==
  \A c \in Slots :
    (VerifyReturned(c) /\ Decodable(c)
       /\ calls[c].header.body.nonce \in calls[c].usedSeen)
    => calls[c].verification = Invalid(nonceReused)

\* C8 amended: verify decodes the header, checks the version, then scheme
\* and network (and that the scheme is 'exact'), then the used-nonce set,
\* then amount, recipient and expiry, then the signature; so a decodable
\* header whose nonce is in usedNonces is rejected with nonceReused even
\* when it would also fail the amount, recipient, expiry or signature
\* check, and with the reason of the version, scheme/network or scheme
\* check when it fails one of those.
C8_UsedNonceOrder ==
  \A c \in Slots :
    (VerifyReturned(c) /\ Decodable(c)
       /\ calls[c].header.body.nonce \in calls[c].usedSeen)
    => LET p == calls[c].header.body
           r == calls[c].req
       IN  calls[c].verification =
             Invalid(IF p.x402Version # 1 THEN unsupportedVersion
                     ELSE IF ~SchemeAndNetworkMatch(p, r)
                       THEN schemeOrNetworkMismatch
                     ELSE IF p.scheme # "exact" THEN unsupportedScheme
                     ELSE nonceReused)

\* a header with a used nonce that also has the wrong amount, the wrong
\* recipient, or no honest signature has been rejected with nonceReused
C8_Witness ==
  \E c \in Slots :
    /\ VerifyReturned(c) /\ Decodable(c)
    /\ calls[c].header.body.nonce \in calls[c].usedSeen
    /\ \/ calls[c].header.body.value # calls[c].req.maxAmountRequired
       \/ calls[c].header.body.to = OtherRecipient
       \/ ~HonestlySigned(calls[c].header.body, calls[c].req)
    /\ calls[c].verification = Invalid(nonceReused)

(***************************************************************************)
(* C9  Matcher short-circuit order                                         *)
(***************************************************************************)
\* the first failing check in the order C9 gives, "" when all five pass
FirstOfFive(p, r, t) ==
  IF p.x402Version # 1 THEN unsupportedVersion
  ELSE IF ~SchemeAndNetworkMatch(p, r) THEN schemeOrNetworkMismatch
  ELSE IF p.value # r.maxAmountRequired THEN amountMismatch
  ELSE IF toLowerCase(p.to) # toLowerCase(r.payTo) THEN recipientMismatch
  ELSE IF ~(p.validBefore >= t) THEN expired
  ELSE ""

\* the same with the check of the scheme, made after scheme/network
FirstOfSix(p, r, t) ==
  IF p.x402Version # 1 THEN unsupportedVersion
  ELSE IF ~SchemeAndNetworkMatch(p, r) THEN schemeOrNetworkMismatch
  ELSE IF p.scheme # "exact" THEN unsupportedScheme
  ELSE FirstOfFive(p, r, t)

\* C9 as stated: for a header with an unused nonce the reason is that of
\* the first failing check in the order unsupportedVersion,
\* schemeOrNetworkMismatch, amountMismatch, recipientMismatch, expired;
\* badSignature (or valid) is the result only when all five pass.
C9_MatcherOrder ==
  \A c \in Slots :
    (VerifyReturned(c) /\ Decodable(c)
       /\ calls[c].header.body.nonce \notin calls[c].usedSeen)
    => LET first == FirstOfFive(calls[c].header.body, calls[c].req,
                                calls[c].clock)
       IN  IF first # "" THEN calls[c].verification = Invalid(first)
           ELSE calls[c].verification \in {Valid, Invalid(badSignature)}

\* C9 amended: the same order with one more check between
\* schemeOrNetworkMismatch and amountMismatch: a payload whose scheme is
\* not 'exact' is rejected there as an unsupported payment scheme.
C9_MatcherOrderExact ==
  \A c \in Slots :
    (VerifyReturned(c) /\ Decodable(c)
       /\ calls[c].header.body.nonce \notin calls[c].usedSeen)
    => LET first == FirstOfSix(calls[c].header.body, calls[c].req,
                               calls[c].clock)
       IN  IF first # "" THEN calls[c].verification = Invalid(first)
           ELSE calls[c].verification \in {Valid, Invalid(badSignature)}

\* a header with an unused nonce, the wrong amount and the wrong recipient
\* has been rejected for its amount
C9_Witness ==
  \E c \in Slots :
    /\ VerifyReturned(c) /\ Decodable(c)
    /\ calls[c].header.body.nonce \notin calls[c].usedSeen
    /\ calls[c].header.body.value # calls[c].req.maxAmountRequired
    /\ toLowerCase(calls[c].header.body.to) # toLowerCase(calls[c].req.payTo)
    /\ calls[c].verification = Invalid(amountMismatch)

(***************************************************************************)
(* C10  Expiry boundary                                                    *)
(***************************************************************************)
\* every check of verify but the expiry check passes
OtherChecksPass(c) ==
  LET p == calls[c].header.body
      r == calls[c].req
  IN  /\ Decodable(c)
      /\ p.x402Version = 1
      /\ SchemeAndNetworkMatch(p, r) /\ p.scheme = "exact"
      /\ p.nonce \notin calls[c].usedSeen
      /\ p.value = r.maxAmountRequired
      /\ toLowerCase(p.to) = toLowerCase(r.payTo)
      /\ HonestlySigned(p, r)

\* C10: an authorization that passes every other check is accepted when
\* validBefore equals the clock and rejected as expired when validBefore
\* equals the clock minus 1.
C10_ExpiryBoundary ==
  \A c \in Slots :
    (VerifyReturned(c) /\ OtherChecksPass(c))
    => /\ calls[c].header.body.validBefore = calls[c].clock
            => calls[c].verification = Valid
       /\ calls[c].header.body.validBefore = calls[c].clock - 1
            => calls[c].verification = Invalid(expired)

\* a payment has been accepted in the last second of its validity
C10_Witness ==
  \E c \in Slots :
    /\ VerifyReturned(c) /\ OtherChecksPass(c)
    /\ calls[c].clock > 0
    /\ calls[c].header.body.validBefore = calls[c].clock
    /\ calls[c].verification = Valid

(***************************************************************************)
(* C11  No fault crosses the boundary                                      *)
(***************************************************************************)
\* no verify and no settle has ended with an exception instead of a response
NothingThrown ==
  \A c \in Slots :
    /\ VerifyReturned(c) => calls[c].verification # Rejected
    /\ Returned(c) /\ calls[c].op = "settle"
         => calls[c].settlement.error # uncaught

EightReasons ==
  {unsupportedVersion, schemeOrNetworkMismatch, amountMismatch,
   recipientMismatch, expired, nonceReused, badSignature, verificationFailed}

\* every response given so far carries a reason of the set `reasons`, and
\* every failure of settle one of them or the error of settle's own catch
\* block (submissionError)
ReasonsWithin(reasons) ==
  \A c \in Slots :
    /\ VerifyReturned(c)
         => IF calls[c].verification.isValid
              THEN calls[c].verification.invalidReason = ""
              ELSE calls[c].verification.invalidReason \in reasons
    /\ (Returned(c) /\ calls[c].op = "settle")
         => IF calls[c].settlement.success
              THEN calls[c].settlement.error = ""
              ELSE calls[c].settlement.error \in reasons \cup {settlementFailed}

\* C12 as stated: every invalid result of verify carries one of the eight
\* reasons, every failure of settle one of the eight or submissionError.
C12_EightReasons == ReasonsWithin(EightReasons)

\* C12 amended: every invalid result of verify carries exactly one of nine
\* reasons, the eight of the taxonomy and 'Unsupported payment scheme' (a
\* payload whose scheme matches the requirement's but is not 'exact'); every
\* failure of settle carries one of those nine or submissionError.
C12_NineReasons == ReasonsWithin(EightReasons \cup {unsupportedScheme})

\* settle has failed with the ninth reason
C12_Witness ==
  \E c \in Slots :
    /\ Returned(c) /\ calls[c].op = "settle"
    /\ calls[c].settlement = Failure(unsupportedScheme)

(***************************************************************************)
(* C13  Tamper detection                                                   *)
(***************************************************************************)
\* the amounts and recipients a sender may have signed
SignableValues == {<<1, 0>>, <<9>>, <<0, 1, 0>>}
SignableRecipients == {Recipient, toLowerCase(Recipient), OtherRecipient}

\* the signature of p was made by the key of p.from, under the domain of
\* r, over the message of p with value v, recipient t and nonce n
SignedWith(p, r, v, t, n) ==
  /\ p.signature.wellFormed
  /\ p.signature.signer \in Wallets
  /\ toLowerCase(p.signature.signer) = toLowerCase(p.from)
  /\ p.signature =
       signTypedData(p.signature.signer, clientDomain(r),
                     MessageOf([p EXCEPT !.value = v, !.to = t, !.nonce = n]))

\* value, to or nonce of p was changed after signing
Tampered(p, r) ==
  \E v \in SignableValues, t \in SignableRecipients, n \in Nonces :
    SignedWith(p, r, v, t, n) /\ <<v, t, n>> # <<p.value, p.to, p.nonce>>

\* ... to another amount, another address or another nonce (not merely
\* written differently)
TamperedMeaning(p, r) ==
  \E v \in SignableValues, t \in SignableRecipients, n \in Nonces :
    /\ SignedWith(p, r, v, t, n)
    /\ \/ ParseUint(v) # ParseUint(p.value)
       \/ toLowerCase(t) # toLowerCase(p.to)
       \/ n # p.nonce

\* C13 as stated: an authorization whose value, to or nonce was changed
\* after signing is rejected with badSignature.
C13_TamperIsBadSignature ==
  \A c \in Slots :
    (VerifyReturned(c) /\ Decodable(c)
       /\ Tampered(calls[c].header.body, calls[c].req))
    => calls[c].verification = Invalid(badSignature)

\* C13 amended: an authorization whose value, to or nonce was changed after
\* signing to another amount, address or nonce is never valid; its reason
\* is badSignature when it passes every check made before the signature
\* check, else the reason of the first of those that fails.  A change of
\* spelling only (the letter case of to) leaves the signed message as it
\* was and is accepted when the other checks pass.
C13_TamperRejected ==
  \A c \in Slots :
    (VerifyReturned(c) /\ Decodable(c)
       /\ Tampered(calls[c].header.body, calls[c].req))
    => LET p == calls[c].header.body
           r == calls[c].req
           first == IF FirstOfSix(p, r, calls[c].clock)
                         \in {unsupportedVersion, schemeOrNetworkMismatch,
                              unsupportedScheme}
                      THEN FirstOfSix(p, r, calls[c].clock)
                    ELSE IF p.nonce \in calls[c].usedSeen THEN nonceReused
                    ELSE FirstOfSix(p, r, calls[c].clock)
       IN  IF first # "" THEN calls[c].verification = Invalid(first)
           ELSE IF TamperedMeaning(p, r)
             THEN calls[c].verification = Invalid(badSignature)
             ELSE calls[c].verification = Valid

\* an authorization signed for another amount and changed to the required
\* one has been rejected for its signature
C13_Witness ==
  \E c \in Slots :
    /\ VerifyReturned(c) /\ Decodable(c)
    /\ \E v \in SignableValues :
         /\ SignedWith(calls[c].header.body, calls[c].req, v,
                       calls[c].header.body.to, calls[c].header.body.nonce)
         /\ ParseUint(v) # ParseUint(calls[c].header.body.value)
    /\ calls[c].verification = Invalid(badSignature)

(***************************************************************************)
(* C15  Client/server chain-id consistency                                 *)
(***************************************************************************)
\* C15: for the network of every requirement a call was made with, and for
\* every network name of the tables and outside them, the client's
\* getChainId and the facilitator's getChainId return the same chain id,
\* and the signing domain and the verifying domain built from the
\* requirement are the same.
C15_SameChainId ==
  /\ \A n \in Networks : clientGetChainId(n) = getChainId(n)
  /\ \A c \in Slots :
       calls[c].pc # "idle"
       => /\ clientGetChainId(calls[c].req.network)
               = getChainId(calls[c].req.network)
          /\ clientDomain(calls[c].req) = facilitatorDomain(calls[c].req)

\* a payment signed by the client for a network in neither table was
\* verified under the facilitator's domain and found valid
C15_Witness ==
  \E c \in Slots :
    /\ VerifyReturned(c)
    /\ calls[c].req.network \notin DOMAIN chainIds
    /\ calls[c].header.body.signature
         = signTypedData(Alice, clientDomain(calls[c].req),
                         MessageOf(calls[c].header.body))
    /\ calls[c].verification = Valid

(***************************************************************************)
(* C16  No cross-network replay                                            *)
(***************************************************************************)
\* the signature of p was made by the key of p.from over the message of p
\* under the signing domain of network n (asset, name and version of r)
SignedForNetwork(p, r, n) ==
  /\ p.signature.wellFormed
  /\ p.signature.signer \in Wallets
  /\ toLowerCase(p.signature.signer) = toLowerCase(p.from)
  /\ p.signature =
       signTypedData(p.signature.signer,
                     clientDomain([r EXCEPT !.network = n]), MessageOf(p))

\* C16: an authorization signed under the signing domain of one network is
\* never accepted as valid by verify against a requirement for a different
\* network, whatever the scheme and network tags of the payload say.
C16_NoCrossNetworkReplay ==
  \A c \in Slots :
    (VerifyReturned(c) /\ Decodable(c)
       /\ \E n \in Networks \ {calls[c].req.network} :
            SignedForNetwork(calls[c].header.body, calls[c].req, n))
    => ~calls[c].verification.isValid

(***************************************************************************)
(* C17  Chain-id lookup and the signature domain                           *)
(***************************************************************************)
\* the chain id the claim gives for a network name
StatedChainId(n) ==
  CASE n = "base-sepolia" -> 84532
    [] n = "base" -> 8453
    [] n = "ethereum" -> 1
    [] n = "sepolia" -> 11155111
    [] OTHER -> 1

\* the domain the claim gives for a requirement
StatedDomain(r) ==
  [name |-> IF r.extra.name = "" THEN "USD Coin" ELSE r.extra.name,
   version |-> IF r.extra.version = "" THEN "2" ELSE r.extra.version,
   chainId |-> StatedChainId(r.network),
   verifyingContract |-> r.asset]

\* C17: getChainId maps 'base-sepolia' to 84532, 'base' to 8453, 'ethereum'
\* to 1, 'sepolia' to 11155111 and every other name to 1, and the domain
\* under which the facilitator checks the signature of a call has that
\* chain id, the name and version of extra (defaults 'USD Coin' and '2')
\* and the asset as verifying contract.
C17_ChainIdLookup ==
  /\ \A n \in Networks : getChainId(n) = StatedChainId(n)
  /\ \A c \in Slots :
       calls[c].pc # "idle"
       => /\ facilitatorDomain(calls[c].req) = StatedDomain(calls[c].req)
          /\ (VerifyReturned(c) /\ Decodable(c)
                /\ calls[c].verification \in {Valid, Invalid(badSignature)})
             => (calls[c].verification.isValid
                   <=> /\ calls[c].header.body.signature.wellFormed
                       /\ toLowerCase(calls[c].header.body.signature.signer)
                            = toLowerCase(calls[c].header.body.from)
                       /\ calls[c].header.body.signature.digest
                            = TypedDataHash(StatedDomain(calls[c].req),
                                            MessageOf(calls[c].header.body)))

\* a signature under the fallback chain id and the default name and
\* version, for an unrecognised network, was checked and accepted
C17_Witness ==
  \E c \in Slots :
    /\ VerifyReturned(c) /\ calls[c].verification = Valid
    /\ calls[c].req.network \notin DOMAIN chainIds
    /\ calls[c].req.extra.name = ""
    /\ calls[c].header.body.signature.digest[1] = "USD Coin"
    /\ calls[c].header.body.signature.digest[2] = "2"
    /\ calls[c].header.body.signature.digest[3] = 1

(***************************************************************************)
(* C18  Monotonic ledger                                                   *)
(***************************************************************************)
\* C18: no step of any verify or settle call, in any order or interleaving,
\* removes a nonce from the used-nonce set: the set of one state is a
\* subset of the set of the next.
C18_LedgerGrows == [][usedNonces \subseteq usedNonces']_vars

\* a call that began when the set already held a nonce has returned, and
\* the set still holds what it held then
C18_Witness ==
  \E c \in Slots :
    /\ Returned(c)
    /\ calls[c].usedSeen # {}
    /\ calls[c].usedSeen \subseteq usedNonces

(***************************************************************************)
(* C19  A consumed nonce is never verified as valid                        *)
(***************************************************************************)
\* C19: in every interleaving, no verify call returns valid for a header
\* whose nonce is in the used-nonce set at the moment the call returns.
C19_ConsumedNeverValid ==
  [][\A c \in Slots :
       (calls[c].op = "verify" /\ calls[c].pc = "verifySig"
          /\ calls'[c].pc = "done" /\ calls'[c].verification.isValid)
       => calls'[c].header.body.nonce \notin usedNonces']_vars

(***************************************************************************)
(* C20  validAfter is not a rejection point                                *)
(***************************************************************************)
\* what verify returns for a header and a requirement, given the used
\* nonces and the clock it reads
VerifyResult(header, requirements, used, now0) ==
  LET b == VerifyBegin(header, requirements, used, now0)
  IN  IF b.suspended THEN VerifyEnd(b.isValidSignature) ELSE b.response

\* C20: an authorization signed by the key of from that passes every other
\* check and is not expired is accepted, whether its validAfter is before,
\* at or after the clock; and the result of every verify call is the one
\* it would have returned at any other clock with the same answer to
\* validBefore < now.
C20_ValidAfterIgnored ==
  \A c \in Slots :
    VerifyReturned(c)
    => /\ (OtherChecksPass(c)
             /\ calls[c].header.body.validBefore >= calls[c].clock)
          => calls[c].verification = Valid
       /\ Decodable(c)
          => \A t \in 0..(MaxNow + 1) :
               ((calls[c].header.body.validBefore < t)
                  <=> (calls[c].header.body.validBefore < calls[c].clock))
               => calls[c].verification
                    = VerifyResult(calls[c].header, calls[c].req,
                                   calls[c].usedSeen, t)

\* an authorization whose validAfter is after the clock was accepted
C20_Witness ==
  \E c \in Slots :
    /\ VerifyReturned(c) /\ OtherChecksPass(c)
    /\ calls[c].header.body.validAfter > calls[c].clock
    /\ calls[c].verification = Valid

(***************************************************************************)
(* C21  Amount and recipient matching                                      *)
(***************************************************************************)
\* the verify of the call in slot c reaches the comparison of the amounts:
\* version, scheme and network pass and the nonce is unused
ReachesAmountCheck(c) ==
  LET p == calls[c].header.body
      r == calls[c].req
  IN  /\ p.x402Version = 1
      /\ SchemeAndNetworkMatch(p, r) /\ p.scheme = "exact"
      /\ p.nonce \notin calls[c].usedSeen

InProgress(c) == calls[c].pc \in {"verifySig", "settleAwait"}

\* C22: a call that has begun and not returned can always take its next
\* step, whatever the other calls are doing, and, the continuations being
\* run fairly, it eventually returns.
C22_EveryCallReturns ==
  /\ [](\A c \in Slots :
          /\ calls[c].pc = "verifySig" => ENABLED VerifyResume(c)
          /\ calls[c].pc = "settleAwait"
               => ENABLED (\E fakeTxHash \in TxHashes :
                             SettleResume(c, fakeTxHash)))
  /\ \A c \in Slots : InProgress(c) ~> Returned(c)

\* a call that was suspended at the signature check has returned while
\* another call is still suspended
C22_Witness ==
  \E c, d \in Slots :
    /\ c # d
    /\ Returned(c)
    /\ calls[c].verification \in {Valid, Invalid(badSignature)}
    /\ InProgress(d)

(***************************************************************************)
(* C23  Only the 'exact' scheme can be paid                                *)
(***************************************************************************)
\* C23: after every step, a call whose payload has a scheme other than
\* 'exact' has no valid verification and no successful settlement, and the
\* step in which its settle returns leaves the used-nonce set as it was.
C23_OnlyExactIsPaid ==
  [][\A c \in Slots :
       (calls'[c].pc # "idle" /\ calls'[c].header.form = "json"
          /\ calls'[c].header.body.scheme # "exact")
       => /\ ~calls'[c].verification.isValid
          /\ ~calls'[c].settlement.success
          /\ (calls[c].pc = "settleAwait" /\ calls'[c].pc = "done")
               => usedNonces' = usedNonces]_vars

\* a settle for a payload of another scheme, which is the scheme of its
\* requirement, has failed
C23_Witness ==
  \E c \in Slots :
    /\ Returned(c) /\ Decodable(c) /\ calls[c].op = "settle"
    /\ calls[c].header.body.scheme # "exact"
    /\ calls[c].header.body.scheme = calls[c].req.scheme
    /\ calls[c].settlement = Failure(unsupportedScheme)
    /\ calls[c].header.body.nonce \notin usedNonces

(***************************************************************************)
(* C24  The requirement's nonce and maxTimeoutSeconds are not checked      *)
(***************************************************************************)
\* the values a requirement may carry in the two fields ("" an absent nonce)
RequirementNonces == {""} \cup Nonces
RequirementTimeouts == 1..(MaxNow + 1)

\* C24: the result of every verify call is the one verify returns, for the
\* same header, used nonces and clock, against the requirement with any
\* other nonce and any other maxTimeoutSeconds.
C24_NonceAndTimeoutIgnored ==
  \A c \in Slots :
    VerifyReturned(c)
    => \A n \in RequirementNonces, m \in RequirementTimeouts :
         calls[c].verification
           = VerifyResult(calls[c].header,
                          [calls[c].req EXCEPT !.nonce = n,
                                               !.maxTimeoutSeconds = m],
                          calls[c].usedSeen, calls[c].clock)

\* an authorization with another nonce than the one its requirement names
\* has been found valid
C24_Witness ==
  \E c \in Slots :
    /\ VerifyReturned(c) /\ Decodable(c)
    /\ calls[c].req.nonce # ""
    /\ calls[c].header.body.nonce # calls[c].req.nonce
    /\ calls[c].verification = Valid
====
